---- MODULE Spec2Model ----
(***************************************************************************)
(* staticgen (main.go): a static site generator.  main discovers page      *)
(* templates with filepath.Glob, and renderOne parses each page together   *)
(* with the shared fragments, resolves the layout, derives the output path *)
(* and executes the layout into the output file.                           *)
(*                                                                         *)
(* Strings are sequences of tokens (a token is a run of characters that    *)
(* the string operations used here never split: ".template", ".html",      *)
(* "index", " ", ...).  A path is a sequence of segments, each a string;   *)
(* an absolute path starts with the segment Root.  The working directory   *)
(* is the root directory, so a relative path and the absolute path with    *)
(* the same segments name the same file.                                   *)
(***************************************************************************)
EXTENDS Integers, Sequences, FiniteSets, TLC

(* ------------------------------------------------------------------ *)
(* Bounds of the model                                                *)
(* ------------------------------------------------------------------ *)
\* at most this many page-like files in the source tree
MaxPages == 2
\* the wall clock starts at 0 and stops advancing here
MaxNow == 2
\* nesting of {{template}} calls followed when executing a block
MaxDepth == 2

(* ------------------------------------------------------------------ *)
(* strings (package strings)                                          *)
(* ------------------------------------------------------------------ *)
IsSpace(tok) == tok \in {" ", "\n", "\t"}

HasSuffix(s, suffix) ==
    /\ Len(s) >= Len(suffix)
    /\ SubSeq(s, Len(s) - Len(suffix) + 1, Len(s)) = suffix

\* strings.TrimSuffix: s without the trailing suffix, or s itself
TrimSuffix(s, suffix) ==
    IF HasSuffix(s, suffix) THEN SubSeq(s, 1, Len(s) - Len(suffix)) ELSE s

RECURSIVE TrimLeft(_)
TrimLeft(s) ==
    IF s # << >> /\ IsSpace(Head(s)) THEN TrimLeft(Tail(s)) ELSE s

RECURSIVE TrimRight(_)
TrimRight(s) ==
    IF s # << >> /\ IsSpace(s[Len(s)]) THEN TrimRight(SubSeq(s, 1, Len(s) - 1)) ELSE s

\* strings.TrimSpace
TrimSpace(s) == TrimRight(TrimLeft(s))

(* ------------------------------------------------------------------ *)
(* paths (package path/filepath)                                      *)
(* ------------------------------------------------------------------ *)
Root == <<"/">>
Dot == <<".">>
DotDot == <<"..">>

IsAbs(p) == p # << >> /\ p[1] = Root

\* filepath.Clean on the segments: "." and repeated separators vanish, "x/.."
\* cancels, ".." above the root vanishes, leading ".." of a relative path stay.
\* The empty sequence stands for ".".
RECURSIVE CleanInto(_, _)
CleanInto(acc, rest) ==
    IF rest = << >> THEN acc
    ELSE LET s == Head(rest) IN
         IF s = Dot \/ s = << >> \/ (s = Root /\ acc # << >>)
             THEN CleanInto(acc, Tail(rest))
         ELSE IF s = DotDot
             THEN IF acc # << >> /\ acc[Len(acc)] = Root
                      THEN CleanInto(acc, Tail(rest))
                  ELSE IF acc # << >> /\ acc[Len(acc)] # DotDot
                      THEN CleanInto(SubSeq(acc, 1, Len(acc) - 1), Tail(rest))
                  ELSE CleanInto(Append(acc, s), Tail(rest))
         ELSE CleanInto(Append(acc, s), Tail(rest))

Clean(p) == CleanInto(<< >>, p)

\* filepath.Join of two paths: empty elements are ignored, the rest is cleaned
Join(a, b) == Clean(a \o b)

\* filepath.Dir and filepath.Base of a cleaned path
Dir(p) == IF p = << >> \/ p = <<Root>> THEN p ELSE SubSeq(p, 1, Len(p) - 1)
Base(p) == IF p = << >> THEN Dot ELSE p[Len(p)]

RECURSIVE CommonLen(_, _)
CommonLen(a, b) ==
    IF a # << >> /\ b # << >> /\ Head(a) = Head(b)
        THEN 1 + CommonLen(Tail(a), Tail(b))
        ELSE 0

RECURSIVE Ups(_)
Ups(n) == IF n = 0 THEN << >> ELSE <<DotDot>> \o Ups(n - 1)

\* filepath.Rel: [ok, path].  It fails only when one path is absolute and the
\* other is not, or when the base still has a ".." where the paths part.
Rel(basepath, targpath) ==
    LET base == Clean(basepath)
        targ == Clean(targpath)
        k == CommonLen(base, targ)
        baseRest == SubSeq(base, k + 1, Len(base))
        targRest == SubSeq(targ, k + 1, Len(targ))
    IN  IF IsAbs(base) # IsAbs(targ) THEN [ok |-> FALSE, path |-> << >>]
        ELSE IF baseRest # << >> /\ Head(baseRest) = DotDot
            THEN [ok |-> FALSE, path |-> << >>]
        ELSE [ok |-> TRUE, path |-> Ups(Len(baseRest)) \o targRest]

\* the file a path names: relative paths are resolved against the root
Resolve(p) == LET c == Clean(p) IN IF IsAbs(c) THEN Tail(c) ELSE c

IsPrefix(a, b) == Len(a) <= Len(b) /\ SubSeq(b, 1, Len(a)) = a

(* ------------------------------------------------------------------ *)
(* the source tree: a function from the (resolved) path of each file  *)
(* to its content.  Directories are the proper prefixes of file paths.*)
(* ------------------------------------------------------------------ *)
IsFile(tr, p) == Resolve(p) \in DOMAIN tr

IsDirIn(tr, p) ==
    LET r == Resolve(p)
    IN  \E f \in DOMAIN tr : Len(f) > Len(r) /\ IsPrefix(r, f)

Exists(tr, p) == IsFile(tr, p) \/ IsDirIn(tr, p)

\* os.ReadDir names of a directory
Entries(tr, d) ==
    LET r == Resolve(d)
    IN  {f[Len(r) + 1] : f \in {g \in DOMAIN tr : Len(g) > Len(r) /\ IsPrefix(r, g)}}

\* every file and directory name of the model in byte order (sort.Strings)
NameOrder ==
    << <<"_includes">>, <<"_layouts">>, <<"base", ".html">>, <<"blog">>,
       <<"deep", ".template", ".html">>, <<"index", ".html">>,
       <<"index", ".html", ".template", ".html">>,
       <<"index", ".template", ".html">>, <<"nav", ".html">>, <<"pages">>,
       <<"post", ".template", ".html">>, <<"site">>, <<"src">>, <<"y">> >>

Rank(name) ==
    IF \E i \in 1..Len(NameOrder) : NameOrder[i] = name
        THEN CHOOSE i \in 1..Len(NameOrder) : NameOrder[i] = name
        ELSE 0

RECURSIVE Sorted(_)
Sorted(names) ==
    IF names = {} THEN << >>
    ELSE LET m == CHOOSE n \in names : \A o \in names : Rank(n) <= Rank(o)
         IN  <<m>> \o Sorted(names \ {m})

(* ------------------------------------------------------------------ *)
(* filepath.Match and filepath.Glob                                   *)
(* ------------------------------------------------------------------ *)
\* "*" matches any run of non-separator characters; "**" is two of them and
\* matches the same names; "[" opens a character class and is malformed here
RECURSIVE Match(_, _)
Match(pat, name) ==
    IF pat = << >> THEN name = << >>
    ELSE IF Head(pat) = "*"
        THEN Match(Tail(pat), name) \/ (name # << >> /\ Match(pat, Tail(name)))
    ELSE name # << >> /\ Head(pat) = Head(name) /\ Match(Tail(pat), Tail(name))

SegHasMeta(seg) == \E i \in 1..Len(seg) : seg[i] \in {"*", "["}
HasMeta(pattern) == \E i \in 1..Len(pattern) : SegHasMeta(pattern[i])
BadPattern(pattern) == \E i \in 1..Len(pattern) : \E j \in 1..Len(pattern[i]) : pattern[i][j] = "["

RECURSIVE FilterMatch(_, _, _)
FilterMatch(dir, pat, names) ==
    IF names = << >> THEN << >>
    ELSE (IF Match(pat, Head(names)) THEN <<Join(dir, <<Head(names)>>)>> ELSE << >>)
         \o FilterMatch(dir, pat, Tail(names))

\* filepath.glob: the entries of dir whose name matches, in sorted order
GlobDir(tr, dir, pat) ==
    IF IsDirIn(tr, dir) THEN FilterMatch(dir, pat, Sorted(Entries(tr, dir))) ELSE << >>

RECURSIVE GlobEach(_, _, _)
GlobEach(tr, dirs, pat) ==
    IF dirs = << >> THEN << >>
    ELSE GlobDir(tr, Head(dirs), pat) \o GlobEach(tr, Tail(dirs), pat)

\* filepath.Glob of a well-formed pattern
RECURSIVE GlobMatches(_, _)
GlobMatches(tr, pattern) ==
    IF ~HasMeta(pattern)
        THEN IF Exists(tr, pattern) THEN <<pattern>> ELSE << >>
    ELSE LET dir == SubSeq(pattern, 1, Len(pattern) - 1)
             file == pattern[Len(pattern)]
         IN  IF ~HasMeta(dir) THEN GlobDir(tr, dir, file)
             ELSE GlobEach(tr, GlobMatches(tr, dir), file)

\* filepath.Glob: [ok, matches]; a malformed pattern is the only error
Glob(tr, pattern) ==
    IF BadPattern(pattern) THEN [ok |-> FALSE, matches |-> << >>]
    ELSE [ok |-> TRUE, matches |-> GlobMatches(tr, pattern)]

(* ------------------------------------------------------------------ *)
(* templates (package html/template over text/template)               *)
(*                                                                    *)
(* A file's content is [defs, malformed]: the {{define}} blocks in    *)
(* order (the text outside them is empty) and whether the file has a  *)
(* syntax error.  A body is a sequence of nodes [k, a]:               *)
(*   text  a     literal text                                         *)
(*   field a     {{.Year}} or {{.BuildTimestamp}}                     *)
(*   func  a     {{nowRFC3339}}                                       *)
(*   call  a     {{template "a" .}}                                   *)
(*   fail  -     an action that fails when run, e.g. {{len 1}}        *)
(*   nil   -     no parse tree at all (the "root" template)           *)
(* ------------------------------------------------------------------ *)
Node(k, a) == [k |-> k, a |-> a]
Text(s) == Node("text", s)
FieldYear == Node("field", <<"Year">>)
FieldTimestamp == Node("field", <<"BuildTimestamp">>)
FuncNow == Node("func", <<"nowRFC3339">>)
Call(name) == Node("call", name)
FailNode == Node("fail", << >>)
NoTree == <<Node("nil", << >>)>>
Def(name, body) == [name |-> name, body |-> body]

\* parse.IsEmptyTree: nothing but white space
IsEmptyTree(body) ==
    \A i \in 1..Len(body) :
        body[i].k = "text" /\ TrimSpace(body[i].a) = << >>

\* AddTrees with a second definition quietly replacing the first
RECURSIVE AddTreesLastWins(_, _)
AddTreesLastWins(set, defs) ==
    IF defs = << >> THEN set
    ELSE LET d == Head(defs) IN
         AddTreesLastWins([ok |-> TRUE,
                           trees |-> [n \in DOMAIN set.trees \cup {d.name} |->
                                         IF n = d.name THEN d.body ELSE set.trees[n]]],
                          Tail(defs))

\* parse.Tree.add: a second non-empty definition of a name in one Parse call
\* is the error "multiple definition of template"
RECURSIVE AddTrees(_, _)
AddTrees(set, defs) ==
    IF ~set.ok \/ defs = << >> THEN set
    ELSE LET d == Head(defs)
             seen == d.name \in DOMAIN set.trees
         IN  IF ~seen \/ IsEmptyTree(set.trees[d.name])
                 THEN AddTrees([ok |-> TRUE,
                                trees |-> [n \in DOMAIN set.trees \cup {d.name} |->
                                              IF n = d.name THEN d.body ELSE set.trees[n]]],
                               Tail(defs))
             ELSE IF ~IsEmptyTree(d.body)
                 THEN [ok |-> FALSE, trees |-> set.trees]
             ELSE AddTrees(set, Tail(defs))

\* parse.Parse of one file: the blocks it defines, then the file's own
\* top-level template, named after the file
ParseText(name, content) ==
    IF content.malformed THEN [ok |-> FALSE, trees |-> << >>]
    ELSE AddTrees([ok |-> TRUE, trees |-> << >>],
                  content.defs \o <<Def(name, << >>)>>)

\* text/template associate + AddParseTree for every tree of a Parse call: a
\* later definition replaces an earlier one unless the later one is empty
Associate(ns, trees) ==
    [n \in DOMAIN ns \cup DOMAIN trees |->
        IF n \notin DOMAIN trees THEN ns[n]
        ELSE IF n \in DOMAIN ns /\ IsEmptyTree(trees[n]) /\ ns[n] # NoTree THEN ns[n]
        ELSE trees[n]]

\* template.New("root"): the set holds "root", which has no parse tree
NewRoot == [n \in {<<"root">>} |-> NoTree]

\* (*Template).ParseFiles: every file is read and parsed in order into one
\* set; the first unreadable or unparsable file ends it with that error.
\* [err, ns] with err one of "nil", "read", "parse", "nofiles".
RECURSIVE ParseInto(_, _, _)
ParseInto(tr, ns, files) ==
    IF files = << >> THEN [err |-> "nil", ns |-> ns]
    ELSE LET f == Head(files) IN
         IF ~IsFile(tr, f) THEN [err |-> "read", ns |-> ns]
         ELSE LET parsed == ParseText(Base(Clean(f)), tr[Resolve(f)]) IN
              IF ~parsed.ok THEN [err |-> "parse", ns |-> ns]
              ELSE ParseInto(tr, Associate(ns, parsed.trees), Tail(files))

ParseFiles(tr, files) ==
    IF files = << >> THEN [err |-> "nofiles", ns |-> NewRoot]
    ELSE ParseInto(tr, NewRoot, files)

\* (*Template).Lookup
Lookup(ns, name) == name \in DOMAIN ns

\* html/template escapes a template before it first runs; a {{template}}
\* call of an undefined name is an error there, before any output
RECURSIVE EscapeOK(_, _, _)
EscapeOK(ns, name, fuel) ==
    /\ name \in DOMAIN ns
    /\ ns[name] # NoTree
    /\ \A i \in 1..Len(ns[name]) :
          ns[name][i].k = "call" =>
              (fuel > 0 /\ EscapeOK(ns, ns[name][i].a, fuel - 1))

\* the value of a field of the data: nil data prints as nothing
FieldValue(data, field) ==
    IF ~data.set THEN << >>
    ELSE IF field = <<"Year">> THEN <<ToString(data.Year)>>
    ELSE data.BuildTimestamp

\* the execution of a body: [ok, out]; out is what was written before an
\* error, if any.  clock is what time.Now() reads while the body runs.
RECURSIVE RunBody(_, _, _, _, _)
RunBody(ns, body, data, clock, fuel) ==
    IF body = << >> THEN [ok |-> TRUE, out |-> << >>]
    ELSE LET n == Head(body)
             first ==
                 CASE n.k = "text" -> [ok |-> TRUE, out |-> n.a]
                   [] n.k = "field" -> [ok |-> TRUE, out |-> FieldValue(data, n.a)]
                   [] n.k = "func" -> [ok |-> TRUE, out |-> <<"T" \o ToString(clock)>>]
                   [] n.k = "call" ->
                        IF fuel > 0 /\ n.a \in DOMAIN ns
                            THEN RunBody(ns, ns[n.a], data, clock, fuel - 1)
                            ELSE [ok |-> FALSE, out |-> << >>]
                   [] OTHER -> [ok |-> FALSE, out |-> << >>]
         IN  IF ~first.ok THEN first
             ELSE LET rest == RunBody(ns, Tail(body), data, clock, fuel)
                  IN  [ok |-> rest.ok, out |-> first.out \o rest.out]

\* (*Template).ExecuteTemplate(w, name, data): [ok, out]
ExecuteTemplate(ns, name, data, clock) ==
    IF ~EscapeOK(ns, name, MaxDepth) THEN [ok |-> FALSE, out |-> << >>]
    ELSE RunBody(ns, ns[name], data, clock, MaxDepth)

NilData == [set |-> FALSE, Year |-> 0, BuildTimestamp |-> << >>]

\* the calendar year of an instant of the wall clock: two instants a year
YearOf(clock) == 2024 + (clock \div 2)

\* BaseData with the timestamp taken from the clock at each render
BaseDataFromClock(clock, timestamp) ==
    [set |-> TRUE, Year |-> YearOf(clock), BuildTimestamp |-> <<"T" \o ToString(clock)>>]

BaseData(clock, timestamp) ==
    [set |-> TRUE, Year |-> YearOf(clock), BuildTimestamp |-> timestamp]

(* ------------------------------------------------------------------ *)
(* the output file system (package os): [files, dirs], files a        *)
(* function from path to the bytes written, dirs a set of paths.  The *)
(* root directory always exists.  The source tree is read-only and is *)
(* kept apart from it.                                                *)
(* ------------------------------------------------------------------ *)
EmptyFS == [files |-> << >>, dirs |-> {}]

Prefixes(p) == {SubSeq(p, 1, n) : n \in 1..Len(p)}

\* os.MkdirAll: [ok, fs]; it fails when a prefix of the path is a file
MkdirAll(fs, path) ==
    LET p == Resolve(path) IN
    IF \E q \in Prefixes(p) : q \in DOMAIN fs.files
        THEN [ok |-> FALSE, fs |-> fs]
        ELSE [ok |-> TRUE, fs |-> [fs EXCEPT !.dirs = @ \cup Prefixes(p)]]

\* os.Create: [ok, fs]; the file is created, or truncated when it exists; it
\* fails when the path is a directory or its parent is not one
Create(fs, path) ==
    LET p == Resolve(path) IN
    IF p = << >> \/ p \in fs.dirs \/ (Len(p) > 1 /\ Dir(p) \notin fs.dirs)
        THEN [ok |-> FALSE, fs |-> fs]
        ELSE [ok |-> TRUE,
              fs |-> [fs EXCEPT !.files =
                         [q \in DOMAIN fs.files \cup {p} |-> IF q = p THEN << >> ELSE fs.files[q]]]]

\* (*os.File).Write through an open handle: the bytes are appended
WriteFile(fs, path, bytes) ==
    LET p == Resolve(path) IN
    [fs EXCEPT !.files = [q \in DOMAIN fs.files |-> IF q = p THEN fs.files[q] \o bytes ELSE fs.files[q]]]

(* ------------------------------------------------------------------ *)
(* errors: [kind, path, layout].  path is the path a *fs.PathError    *)
(* carries, or the page file named by renderOne's own message; layout *)
(* is the layout named by that message.                               *)
(* ------------------------------------------------------------------ *)
Err(kind, path, layout) == [kind |-> kind, path |-> path, layout |-> layout]
NoErr == Err("nil", << >>, << >>)

(* ------------------------------------------------------------------ *)
(* names, flags and source trees the model runs on                    *)
(* ------------------------------------------------------------------ *)
N(s) == <<s>>
TemplateSuffix == <<".template", ".html">>
HtmlSuffix == <<".html">>
Public == <<"public">>
LayoutName == <<"layout_name">>
Dashboard == <<"dashboard">>
Content == <<"content">>

IndexPage == <<N("src"), N("pages"), <<"index">> \o TemplateSuffix>>
PostPage == <<N("src"), N("pages"), N("blog"), <<"post">> \o TemplateSuffix>>
DeepPage == <<N("src"), N("pages"), N("blog"), N("y"), <<"deep">> \o TemplateSuffix>>
StrayPage == <<N("src"), N("site"), <<"index">> \o TemplateSuffix>>
PlainPage == <<N("src"), N("pages"), <<"index", ".html">> >>
TwicePage == <<N("src"), N("pages"), <<"index", ".html">> \o TemplateSuffix>>
BaseLayout == <<N("src"), N("_layouts"), <<"base", ".html">> >>
NavInclude == <<N("src"), N("_includes"), <<"nav", ".html">> >>

PagePaths == {IndexPage, PostPage, DeepPage, StrayPage, PlainPage, TwicePage}

\* the default of the -glob flag, "pages/**/*.template.html"
DefaultGlob == <<N("pages"), <<"*", "*">>, <<"*">> \o TemplateSuffix>>
Globs ==
    { DefaultGlob,
      <<N("pages"), <<"*">> \o TemplateSuffix>>,
      <<N("pages"), <<"*", ".html">> >>,
      <<N("pages"), <<"*">> >>,
      <<N("pages"), <<"[">> >>,
      <<N("pages"), <<"index">> \o TemplateSuffix>>,
      << <<"*">>, <<"index">> \o TemplateSuffix>>,
      <<Root, N("src"), N("pages"), <<"*">> \o TemplateSuffix>> }

DefaultSrc == <<N("src")>>
SrcDirs == {DefaultSrc, << >>}
DefaultOut == <<N("site")>>
OutDirs == {DefaultOut, <<N("build")>>}
\* the -timestamp flag: not given, or a value
NoFlag == <<"<unset>">>
TsFlags == {NoFlag, <<"2024-01-01 00:00:00 CST">>}

File(defs) == [defs |-> defs, malformed |-> FALSE]
Malformed == [defs |-> << >>, malformed |-> TRUE]

PHello == File(<<Def(Public, <<Text(<<"Hello ">>), FieldYear>>)>>)
PDash == File(<<Def(LayoutName, <<Text(<<" ", "dashboard", "\n">>)>>),
                Def(Content, <<Text(<<"body ">>), FieldTimestamp>>)>>)
PBlank == File(<<Def(LayoutName, <<Text(<<" ", "\n">>)>>),
                 Def(Public, <<Text(<<"plain">>)>>)>>)
PFailName == File(<<Def(LayoutName, <<Text(<<"dashboard">>), FailNode>>),
                    Def(Public, <<Text(<<"fallback">>)>>)>>)
PNilName == File(<<Def(LayoutName, <<FieldYear>>),
                   Def(Public, <<Text(<<"nil">>)>>)>>)
PMissing == File(<<Def(LayoutName, <<Text(<<"missing">>)>>),
                   Def(Public, <<Text(<<"unused">>)>>)>>)
PDup == File(<<Def(Public, <<Text(<<"one">>)>>), Def(Public, <<Text(<<"two">>)>>)>>)
PPartial == File(<<Def(Public, <<Text(<<"partial">>), FailNode>>)>>)
PNow == File(<<Def(Public, <<FuncNow>>)>>)
PContent == File(<<Def(Content, <<Text(<<"mine">>)>>)>>)
PageContents ==
    {PHello, PDash, PBlank, PFailName, PNilName, PMissing, PDup, PPartial, PNow,
     PContent, Malformed}

LDash == File(<<Def(Dashboard, <<Text(<<"D:">>), Call(Content)>>)>>)
LPublic == File(<<Def(Public, <<Text(<<"L:">>), Call(Content)>>),
                  Def(Content, <<Text(<<"default">>)>>)>>)
LNav == File(<<Def(Public, <<Text(<<"N:">>)>>), Def(Content, <<Text(<<" ">>)>>)>>)

\* a function given as a set of <<path, content>> pairs
TreeOf(pairs) ==
    [p \in {pr[1] : pr \in pairs} |-> (CHOOSE pr \in pairs : pr[1] = p)[2]]

SharedSets ==
    { {}, {<<BaseLayout, LDash>>}, {<<BaseLayout, LPublic>>},
      {<<NavInclude, LPublic>>, <<BaseLayout, LNav>>},
      {<<NavInclude, LNav>>, <<BaseLayout, LDash>>} }

\* trees that vary where the pages are: every page is the same small page
PathTrees ==
    { [p \in S |-> PHello] : S \in {T \in SUBSET PagePaths : Cardinality(T) <= MaxPages} }

\* trees that vary what the templates say: one or two pages in pages/
ContentTrees ==
    { TreeOf(pages \cup shared) :
        pages \in { {<<IndexPage, c>>} : c \in PageContents }
            \cup { {<<TwicePage, c>>, <<IndexPage, d>>} :
                     c \in {x \in PageContents : MaxPages >= 2}, d \in {PHello, PDash, PDup} },
        shared \in SharedSets }

(* ------------------------------------------------------------------ *)
(* state                                                              *)
(* ------------------------------------------------------------------ *)
VARIABLES
    srcDir, outDir, pagesGlob, tsFlag,  \* the flags -src, -out, -glob, -timestamp
    tree,            \* the source tree
    now,             \* the wall clock
    fs,              \* the output file system
    run,             \* 1 for the first run of the program, 2 for the run after it
    pc,              \* where main or renderOne stands
    buildTimestamp,  \* main's buildTimestamp after flag.Parse
    pageFiles,       \* main's pageFiles
    idx,             \* the position of main's range loop in pageFiles
    t,               \* renderOne's template set
    layout,          \* renderOne's layout
    outPath,         \* renderOne's outPath
    handle,          \* the paths renderOne holds an open file for
    err,             \* the error renderOne returns
    exitCode,        \* -1 while the process runs, then its exit status
    stderr,          \* the error fatal printed
    \* history, for stating properties only
    started,         \* the pages renderOne was called for in this run
    returned,        \* what each of those calls returned, in order
    writes,          \* [page, path] of every os.Create that succeeded in this run
    fsAtEntry,       \* fs when the current call of renderOne began
    years,           \* the years time.Now().Year() returned, over both runs
    firstOut         \* the output files as the first run left them

flagVars == <<srcDir, outDir, pagesGlob, tsFlag, tree>>
mainVars == <<buildTimestamp, pageFiles, idx, exitCode, stderr>>
renderVars == <<t, layout, outPath, handle, err>>
histVars == <<started, returned, writes, fsAtEntry, years, firstOut>>
vars == <<flagVars, now, fs, run, pc, mainVars, renderVars, histVars>>

pageFile == pageFiles[idx]

\* main.go:62-65
includesGlobs ==
    << Join(srcDir, <<N("_includes"), <<"*", ".html">> >>),
       Join(srcDir, <<N("_layouts"), <<"*", ".html">> >>) >>

\* time.Now().In(cst).Format(...): the default of -timestamp
FormatNow(clock) == <<"T" \o ToString(clock)>>

\* fatal (main.go:148-157): the message goes to stderr, the process exits 1
Fatal(e) ==
    /\ exitCode' = 1
    /\ stderr' = e
    /\ pc' = "exited"

Start ==
    /\ now = 0
    /\ fs = EmptyFS
    /\ run = 1
    /\ pc = "main"
    /\ buildTimestamp = << >>
    /\ pageFiles = << >>
    /\ idx = 0
    /\ t = NewRoot
    /\ layout = << >>
    /\ outPath = << >>
    /\ handle = {}
    /\ err = NoErr
    /\ exitCode = -1
    /\ stderr = NoErr
    /\ started = << >>
    /\ returned = << >>
    /\ writes = << >>
    /\ fsAtEntry = EmptyFS
    /\ years = {}
    /\ firstOut = << >>

\* every flag and every place of the pages, all pages alike
InitPaths ==
    /\ srcDir \in SrcDirs
    /\ outDir \in OutDirs
    /\ pagesGlob \in Globs
    /\ tsFlag \in TsFlags
    /\ tree \in PathTrees
    /\ Start

\* the default directories, every content of pages and shared fragments
InitContents ==
    /\ srcDir = DefaultSrc
    /\ outDir = DefaultOut
    /\ pagesGlob = <<N("pages"), <<"*">> \o TemplateSuffix>>
    /\ tsFlag \in TsFlags
    /\ tree \in ContentTrees
    /\ Start

Init == InitPaths \/ InitContents

\* the runs whose source tree has no page-like file outside <src>/pages
InitPagesOnly ==
    /\ Init
    /\ \A f \in DOMAIN tree :
          IsPrefix(<<N("src"), N("pages")>>, f) \/ f \in {BaseLayout, NavInclude}

(* ------------------------------------------------------------------ *)
(* main                                                               *)
(* ------------------------------------------------------------------ *)
\* main.go:24-47: the flags are parsed, the output directory is made
MainStart ==
    /\ pc = "main"
    /\ buildTimestamp' = IF tsFlag = NoFlag THEN FormatNow(now) ELSE tsFlag
    /\ LET made == MkdirAll(fs, outDir) IN
       IF made.ok
           THEN /\ fs' = made.fs
                /\ pc' = "glob"
                /\ UNCHANGED <<exitCode, stderr>>
           ELSE /\ Fatal(Err("mkdir", outDir, << >>))
                /\ UNCHANGED fs
    /\ UNCHANGED <<flagVars, now, run, pageFiles, idx, renderVars, histVars>>

\* MainGlob without the check for an empty list of pages
MainGlobUnchecked ==
    /\ pc = "glob"
    /\ LET g == Glob(tree, Join(srcDir, pagesGlob))
       IN  IF ~g.ok
               THEN /\ Fatal(Err("badpattern", << >>, << >>))
                    /\ UNCHANGED <<pageFiles, idx>>
           ELSE /\ pageFiles' = g.matches
                /\ idx' = 1
                /\ pc' = "loop"
                /\ UNCHANGED <<exitCode, stderr>>
    /\ UNCHANGED <<flagVars, now, fs, run, buildTimestamp, renderVars, histVars>>

\* main.go:49-59: the page files are collected
MainGlob ==
    /\ pc = "glob"
    /\ LET pagePattern == Join(srcDir, pagesGlob)
           g == Glob(tree, pagePattern)
       IN  IF ~g.ok
               THEN /\ Fatal(Err("badpattern", << >>, << >>))
                    /\ UNCHANGED <<pageFiles, idx>>
           ELSE IF Len(g.matches) = 0
               THEN /\ Fatal(Err("nopages", pagePattern, << >>))
                    /\ UNCHANGED <<pageFiles, idx>>
           ELSE /\ pageFiles' = g.matches
                /\ idx' = 1
                /\ pc' = "loop"
                /\ UNCHANGED <<exitCode, stderr>>
    /\ UNCHANGED <<flagVars, now, fs, run, buildTimestamp, renderVars, histVars>>

\* main.go:67-68: renderOne is called for the next page
CallRenderOne ==
    /\ pc = "loop"
    /\ idx <= Len(pageFiles)
    /\ pc' = "parse"
    /\ t' = NewRoot
    /\ layout' = << >>
    /\ outPath' = << >>
    /\ handle' = {}
    /\ err' = NoErr
    /\ started' = Append(started, pageFile)
    /\ fsAtEntry' = fs
    /\ UNCHANGED <<flagVars, now, fs, run, mainVars, returned, writes, years, firstOut>>

\* MainCheck going on to the next page whatever renderOne returned
MainCheckContinue ==
    /\ pc = "check"
    /\ idx' = idx + 1
    /\ pc' = "loop"
    /\ UNCHANGED <<exitCode, stderr>>
    /\ UNCHANGED <<flagVars, now, fs, run, buildTimestamp, pageFiles, renderVars, histVars>>

\* main.go:68-70: what renderOne returned is checked
MainCheck ==
    /\ pc = "check"
    /\ IF err # NoErr
           THEN /\ Fatal(err)
                /\ UNCHANGED idx
           ELSE /\ idx' = idx + 1
                /\ pc' = "loop"
                /\ UNCHANGED <<exitCode, stderr>>
    /\ UNCHANGED <<flagVars, now, fs, run, buildTimestamp, pageFiles, renderVars, histVars>>

\* main.go:73-74: every page is rendered, main returns
MainDone ==
    /\ pc = "loop"
    /\ idx > Len(pageFiles)
    /\ exitCode' = 0
    /\ pc' = "exited"
    /\ UNCHANGED <<flagVars, now, fs, run, buildTimestamp, pageFiles, idx, stderr,
                   renderVars, histVars>>

(* ------------------------------------------------------------------ *)
(* renderOne                                                          *)
(* ------------------------------------------------------------------ *)
RECURSIVE AllMatches(_, _)
AllMatches(tr, globs) ==
    IF globs = << >> THEN << >>
    ELSE Glob(tr, Head(globs)).matches \o AllMatches(tr, Tail(globs))

\* main.go:77-83: the shared fragments, then the page
TemplateFiles(tr, globs, page) == Append(AllMatches(tr, globs), page)

\* main.go:85-93
ParseSet(tr, globs, page) == ParseFiles(tr, TemplateFiles(tr, globs, page))

\* ResolveLayout with the error of the override's execution not looked at
ResolveLayoutUnchecked(ns) ==
    IF Lookup(ns, LayoutName)
        THEN LET name == TrimSpace(ExecuteTemplate(ns, LayoutName, NilData, 0).out)
             IN  IF name # << >> THEN name ELSE Public
        ELSE Public

\* main.go:95-107: the layout to execute
ResolveLayout(ns) ==
    IF Lookup(ns, LayoutName)
        THEN LET b == ExecuteTemplate(ns, LayoutName, NilData, 0)
                 name == TrimSpace(b.out)
             IN  IF b.ok /\ name # << >> THEN name ELSE Public
        ELSE Public

\* OutName with the directories of the page dropped
OutNameFlat(rel) ==
    IF rel = << >> THEN << Dot \o HtmlSuffix >>
    ELSE << TrimSuffix(rel[Len(rel)], TemplateSuffix) \o HtmlSuffix >>

\* main.go:114: the name of the output file, relative to the output directory
OutName(rel) ==
    IF rel = << >> THEN << Dot \o HtmlSuffix >>
    ELSE SubSeq(rel, 1, Len(rel) - 1)
             \o << TrimSuffix(rel[Len(rel)], TemplateSuffix) \o HtmlSuffix >>

\* main.go:110-115: [ok, path]
OutPathOf(src, out, page) ==
    LET r == Rel(Join(src, <<N("pages")>>), page)
    IN  IF r.ok THEN [ok |-> TRUE, path |-> Join(out, OutName(r.path))]
        ELSE [ok |-> FALSE, path |-> << >>]

\* main.go:77-93
RenderParse ==
    /\ pc = "parse"
    /\ LET parsed == ParseSet(tree, includesGlobs, pageFile) IN
       IF parsed.err # "nil"
           THEN /\ err' = Err(parsed.err, << >>, << >>)
                /\ pc' = "return"
                /\ UNCHANGED t
           ELSE /\ t' = parsed.ns
                /\ pc' = "layout"
                /\ UNCHANGED err
    /\ UNCHANGED <<flagVars, now, fs, run, mainVars, layout, outPath, handle, histVars>>

\* main.go:95-107
RenderLayout ==
    /\ pc = "layout"
    /\ layout' = ResolveLayout(t)
    /\ pc' = "path"
    /\ UNCHANGED <<flagVars, now, fs, run, mainVars, t, outPath, handle, err, histVars>>

\* main.go:109-118
RenderPath ==
    /\ pc = "path"
    /\ LET o == OutPathOf(srcDir, outDir, pageFile) IN
       IF ~o.ok
           THEN /\ err' = Err("rel", << >>, << >>)
                /\ pc' = "return"
                /\ UNCHANGED outPath
           ELSE /\ outPath' = o.path
                /\ pc' = "mkdir"
                /\ UNCHANGED err
    /\ UNCHANGED <<flagVars, now, fs, run, mainVars, t, layout, handle, histVars>>

\* main.go:120-123
RenderMkdir ==
    /\ pc = "mkdir"
    /\ LET made == MkdirAll(fs, Dir(outPath)) IN
       IF made.ok
           THEN /\ fs' = made.fs
                /\ pc' = "create"
                /\ UNCHANGED err
           ELSE /\ err' = Err("mkdir", Dir(outPath), << >>)
                /\ pc' = "return"
                /\ UNCHANGED fs
    /\ UNCHANGED <<flagVars, now, run, mainVars, t, layout, outPath, handle, histVars>>

\* main.go:125-130: the file is created or truncated; its Close is deferred
RenderCreate ==
    /\ pc = "create"
    /\ LET made == Create(fs, outPath) IN
       IF made.ok
           THEN /\ fs' = made.fs
                /\ handle' = {Resolve(outPath)}
                /\ writes' = Append(writes, [page |-> pageFile, path |-> Resolve(outPath)])
                /\ pc' = "exec"
                /\ UNCHANGED err
           ELSE /\ err' = Err("create", outPath, << >>)
                /\ pc' = "return"
                /\ UNCHANGED <<fs, handle, writes>>
    /\ UNCHANGED <<flagVars, now, run, mainVars, t, layout, outPath,
                   started, returned, fsAtEntry, years, firstOut>>

\* main.go:132-139: the layout is executed into the file
RenderExec ==
    /\ pc = "exec"
    /\ LET data == BaseData(now, buildTimestamp)
           x == ExecuteTemplate(t, layout, data, now)
       IN  /\ fs' = WriteFile(fs, outPath, x.out)
           /\ err' = IF x.ok THEN NoErr ELSE Err("exec", pageFile, layout)
    /\ years' = years \cup {YearOf(now)}
    /\ pc' = "return"
    /\ UNCHANGED <<flagVars, now, run, mainVars, t, layout, outPath, handle,
                   started, returned, writes, fsAtEntry, firstOut>>

\* RenderReturn without the deferred Close
RenderReturnLeak ==
    /\ pc = "return"
    /\ returned' = Append(returned, err)
    /\ pc' = "check"
    /\ UNCHANGED <<flagVars, now, fs, run, mainVars, renderVars,
                   started, writes, fsAtEntry, years, firstOut>>

\* main.go:130: renderOne returns, the deferred Close runs
RenderReturn ==
    /\ pc = "return"
    /\ handle' = {}
    /\ returned' = Append(returned, err)
    /\ pc' = "check"
    /\ UNCHANGED <<flagVars, now, fs, run, mainVars, t, layout, outPath, err,
                   started, writes, fsAtEntry, years, firstOut>>

(* ------------------------------------------------------------------ *)
(* the environment                                                    *)
(* ------------------------------------------------------------------ *)
\* time passes.  The program reads the clock at main.go:35 and in renderOne at
\* main.go:88 and main.go:133; the time that passes anywhere else is counted
\* when the next of these reads is due.
Tick ==
    /\ now < MaxNow
    /\ pc \in {"main", "exec"}
    /\ now' = now + 1
    /\ UNCHANGED <<flagVars, fs, run, pc, mainVars, renderVars, histVars>>

\* the program is run again with the same flags on the same source tree; the
\* output of the first run is still on disk
Rerun ==
    /\ pc = "exited"
    /\ run = 1
    /\ run' = 2
    /\ firstOut' = fs.files
    /\ pc' = "main"
    /\ buildTimestamp' = << >>
    /\ pageFiles' = << >>
    /\ idx' = 0
    /\ exitCode' = -1
    /\ stderr' = NoErr
    /\ started' = << >>
    /\ returned' = << >>
    /\ writes' = << >>
    /\ UNCHANGED <<flagVars, now, fs, renderVars, fsAtEntry, years>>

Next ==
    \/ MainStart
    \/ MainGlob
    \/ CallRenderOne
    \/ MainCheck
    \/ MainDone
    \/ RenderParse
    \/ RenderLayout
    \/ RenderPath
    \/ RenderMkdir
    \/ RenderCreate
    \/ RenderExec
    \/ RenderReturn
    \/ Tick
    \/ Rerun

Spec == Init /\ [][Next]_vars

SpecPagesOnly == InitPagesOnly /\ [][Next]_vars

(* ------------------------------------------------------------------ *)
(* properties                                                         *)
(* ------------------------------------------------------------------ *)
\* renderOne is past its layout resolution (main.go:107)
LayoutResolved == layout # << >>

\* the text the "layout_name" block of the current set renders, trimmed
OverrideRun == ExecuteTemplate(t, LayoutName, NilData, 0)
OverrideText == TrimSpace(OverrideRun.out)
OverrideApplies ==
    /\ LayoutName \in DOMAIN t
    /\ OverrideRun.ok
    /\ OverrideText # << >>

\* C1: the layout executed is the trimmed text of the "layout_name" block when
\* that block is present, runs without error and renders non-blank text; in
\* every other case it is "public"; and the resolution itself never makes
\* renderOne return an error.
C1_LayoutResolution ==
    /\ LayoutResolved =>
          IF OverrideApplies THEN layout = OverrideText ELSE layout = Public
    /\ pc = "path" => err = NoErr
    /\ (pc \in {"return", "check"} /\ err.kind = "exec") =>
          err.layout = (IF OverrideApplies THEN OverrideText ELSE Public)

\* C1 witness: a page whose "layout_name" block renders " dashboard\n" is
\* about to be executed with the layout "dashboard"
C1_Witness ==
    /\ pc = "exec"
    /\ OverrideApplies
    /\ OverrideRun.out # OverrideText
    /\ layout = Dashboard

\* C1, the other cases: the block is there and fails, or renders blank text
C1_WitnessFailedOverride ==
    pc = "exec" /\ LayoutName \in DOMAIN t /\ ~OverrideRun.ok /\ layout = Public
C1_WitnessBlankOverride ==
    pc = "exec" /\ LayoutName \in DOMAIN t /\ OverrideRun.ok /\ layout = Public

\* a page file under <src>/pages whose name ends in ".template.html"
PagesRoot == Join(srcDir, <<N("pages")>>)
UnderPages(page) ==
    LET c == Clean(page) IN
    /\ IsAbs(c) = IsAbs(PagesRoot)
    /\ IsPrefix(PagesRoot, c)
    /\ Len(c) > Len(PagesRoot)
ValidPage(page) == UnderPages(page) /\ HasSuffix(Base(Clean(page)), TemplateSuffix)

\* <out>/<the directories of the page below pages/>/<stem>.html
MirrorPath(page) ==
    LET c == Clean(page)
        name == Base(c)
        stem == SubSeq(name, 1, Len(name) - Len(TemplateSuffix))
    IN  Resolve(outDir) \o SubSeq(c, Len(PagesRoot) + 1, Len(c) - 1) \o <<stem \o HtmlSuffix>>

\* C2: the file written for a valid page under <src>/pages is <out>/<its path
\* below pages/> with ".template.html" replaced by ".html", and no other
\* file is created or truncated for that page.
C2_OutputPath ==
    /\ \A i \in 1..Len(writes) :
          ValidPage(writes[i].page) => writes[i].path = MirrorPath(writes[i].page)
    /\ \A i, j \in 1..Len(writes) : writes[i].page = writes[j].page => i = j
    /\ (pc \in {"return", "check"} /\ ValidPage(pageFile)) =>
          \A f \in DOMAIN fs.files :
              (f \notin DOMAIN fsAtEntry.files \/ fs.files[f] # fsAtEntry.files[f])
                  => f = MirrorPath(pageFile)

\* C2 witness: a page in a sub-directory of pages/ has been written
C2_Witness ==
    /\ pc = "check"
    /\ err = NoErr
    /\ pageFile = PostPage
    /\ Resolve(outPath) \in DOMAIN fs.files
    /\ Len(outPath) = 3

\* renderOne is past ParseFiles for the current page, or has returned from it
PastParse == pc \in {"layout", "path", "mkdir", "create", "exec", "return", "check"}

\* the definitions of each file of the current page's template set, in the
\* order the files are parsed
DefsIn(f) == IF IsFile(tree, f) THEN tree[Resolve(f)].defs ELSE << >>
SetDefs ==
    LET files == TemplateFiles(tree, includesGlobs, pageFile)
    IN  [a \in 1..Len(files) |-> DefsIn(files[a])]

\* a name with two non-empty definitions in one list of definitions
DupInDefs(defs) ==
    \E i, j \in 1..Len(defs) :
        /\ i < j
        /\ defs[i].name = defs[j].name
        /\ ~IsEmptyTree(defs[i].body)
        /\ ~IsEmptyTree(defs[j].body)

DupInFile(f) == DupInDefs(DefsIn(f))

\* a name with two non-empty definitions anywhere in the set
DupInSetDefs(sd) ==
    \E a, b \in 1..Len(sd) :
        \E i \in 1..Len(sd[a]), j \in 1..Len(sd[b]) :
            /\ (a # b \/ i # j)
            /\ sd[a][i].name = sd[b][j].name
            /\ ~IsEmptyTree(sd[a][i].body)
            /\ ~IsEmptyTree(sd[b][j].body)

DupInSet == DupInSetDefs(SetDefs)

\* the last non-empty definition of a name in the set is at file a, place i
IsLastDef(sd, a, i) ==
    /\ ~IsEmptyTree(sd[a][i].body)
    /\ \A b \in 1..Len(sd) : \A j \in 1..Len(sd[b]) :
          (sd[b][j].name = sd[a][i].name /\ ~IsEmptyTree(sd[b][j].body))
              => (b < a \/ (b = a /\ j <= i))

C3_WitnessAcrossFiles ==
    /\ pc = "layout"
    /\ DupInSet
    /\ ~DupInFile(pageFile)

\* the path is inside the <out> tree
InsideOut(path) == IsPrefix(Resolve(outDir), path)

\* C4 as stated: a page that is not under <src>/pages makes renderOne return
\* the path error and write nothing, so every file created is inside <out>.
C4_OutsidePagesRejected ==
    /\ \A i \in 1..Len(writes) : InsideOut(writes[i].path)
    /\ (pc = "check" /\ err.kind \notin {"read", "parse"} /\ ~UnderPages(pageFile)) =>
          (err.kind = "rel" /\ fs = fsAtEntry)

\* the files of the tree below <src>/pages whose name ends in ".template.html"
TreePages == {f \in DOMAIN tree : ValidPage(f)}

\* C5 as stated: with the default -glob every ".template.html" file below
\* <src>/pages, at any depth, is among the pages found.
C5_DefaultGlobIsRecursive ==
    (pagesGlob = DefaultGlob /\ pc \notin {"main", "glob"}) =>
        \A f \in TreePages : \E i \in 1..Len(pageFiles) : Resolve(pageFiles[i]) = f

\* C6: pages are rendered one at a time in glob order; the first error
\* renderOne returns ends the process with status 1 and no later page is
\* started, the files written before stay; status 0 means every page found
\* was rendered without error.
C6_AbortOnFirstError ==
    /\ Len(started) <= Len(pageFiles)
    /\ \A i \in 1..Len(started) : started[i] = pageFiles[i]
    /\ Len(returned) <= Len(started)
    /\ Len(started) <= Len(returned) + 1
    /\ \A i \in 1..Len(returned) :
          returned[i] # NoErr =>
              /\ Len(started) = i
              /\ pc \in {"check", "exited"}
              /\ pc = "exited" => (exitCode = 1 /\ stderr = returned[i])
    /\ exitCode = 1 => \A i \in 1..Len(writes) : writes[i].path \in DOMAIN fs.files
    /\ exitCode = 0 =>
          /\ Len(returned) = Len(pageFiles)
          /\ started = pageFiles
          /\ \A i \in 1..Len(returned) : returned[i] = NoErr

\* C6 witness: the first of two pages failed, the process has exited with
\* status 1 and the second page was never started
C6_Witness ==
    /\ pc = "exited"
    /\ exitCode = 1
    /\ Len(pageFiles) = 2
    /\ Len(started) = 1
    /\ returned # << >>

\* C6, the other end: two pages rendered, status 0
C6_WitnessSuccess ==
    pc = "exited" /\ exitCode = 0 /\ Len(pageFiles) = 2 /\ Len(writes) = 2

\* the page glob is well formed and matches nothing in the source tree
NoPageMatches ==
    LET g == Glob(tree, Join(srcDir, pagesGlob)) IN g.ok /\ g.matches = << >>

\* C7: when the page glob matches no file, main exits with status 1 and the
\* "no page templates found" error before renderOne is called, and no output
\* file exists.
C7_NoPagesFound ==
    /\ (pc \notin {"main", "glob"} /\ NoPageMatches) =>
          /\ pc = "exited"
          /\ exitCode = 1
          /\ stderr.kind = "nopages"
          /\ started = << >>
          /\ writes = << >>
          /\ DOMAIN fs.files = {}
    /\ stderr.kind \in {"nopages", "badpattern"} =>
          (exitCode = 1 /\ started = << >> /\ DOMAIN fs.files = {})

\* C7 witness: the tree holds a page, the glob does not match it, and main
\* has exited on "no page templates found"
C7_Witness ==
    /\ pc = "exited"
    /\ stderr.kind = "nopages"
    /\ DOMAIN tree # {}

\* some template of the source tree calls nowRFC3339
TreeCallsNow ==
    \E f \in DOMAIN tree : \E i \in 1..Len(tree[f].defs) :
        \E k \in 1..Len(tree[f].defs[i].body) : tree[f].defs[i].body[k].k = "func"

\* the second run has ended, both runs had the same -timestamp value
TwoRunsDone == run = 2 /\ pc = "exited" /\ tsFlag # NoFlag

\* C8 as stated: two runs on the same tree with the same flags and -timestamp
\* leave the same output files, whatever the wall clock says.
C8_SameOutputWhateverTheClock == TwoRunsDone => fs.files = firstOut

\* C8 amended: they leave the same output files when every render read the
\* same calendar year from the wall clock and no template calls nowRFC3339.
C8_SameOutputSameYear ==
    (TwoRunsDone /\ Cardinality(years) <= 1 /\ ~TreeCallsNow) => fs.files = firstOut

\* C8 witness: two successful runs in one year, the clock moved, files written
C8_Witness ==
    /\ TwoRunsDone
    /\ exitCode = 0
    /\ years = {YearOf(0)}
    /\ now = 1
    /\ ~TreeCallsNow
    /\ DOMAIN fs.files # {}

\* C9: when executing the resolved layout fails, renderOne's error names the
\* page file and the layout tried; the output file was created or truncated
\* before and stays; its handle is closed when renderOne has returned; the
\* run ends with status 1.  A layout that is no block of the set is such a
\* failure, and leaves the file empty.
C9_ExecFailure ==
    /\ (pc \in {"return", "check"} /\ err.kind = "exec") =>
          /\ err.path = pageFile
          /\ err.layout = layout
          /\ writes # << >>
          /\ writes[Len(writes)] = [page |-> pageFile, path |-> Resolve(outPath)]
          /\ Resolve(outPath) \in DOMAIN fs.files
    /\ (pc \in {"return", "check"} /\ err.kind \in {"nil", "exec"} /\ layout \notin DOMAIN t) =>
          (err.kind = "exec" /\ fs.files[Resolve(outPath)] = << >>)
    /\ pc \in {"check", "loop", "exited", "main", "glob"} => handle = {}
    /\ (pc = "exited" /\ stderr.kind = "exec") =>
          /\ exitCode = 1
          /\ stderr.path = pageFile
          /\ Resolve(outPath) \in DOMAIN fs.files

\* C9 witness: the page asked for the layout "missing", which no file defines;
\* renderOne has returned the error and the empty output file is there
C9_Witness ==
    /\ pc = "check"
    /\ err.kind = "exec"
    /\ layout = <<"missing">>
    /\ fs.files[Resolve(outPath)] = << >>

\* C9, a failure in the middle of the execution: part of the page is written
C9_WitnessPartial ==
    pc = "check" /\ err.kind = "exec" /\ fs.files[Resolve(outPath)] # << >>

\* C10 as stated: no two pages found in one run are written to the same
\* output path, and a successful run leaves as many output files as it found
\* pages.
C10_NoCollision ==
    /\ \A i, j \in 1..Len(writes) : writes[i].path = writes[j].path => i = j
    /\ (pc = "exited" /\ exitCode = 0) =>
          Cardinality({writes[i].path : i \in 1..Len(writes)}) = Len(pageFiles)

====
